---- MODULE Spec2Model ----
(***************************************************************************)
(* Model of backend/server.py: the in-memory subscription registry        *)
(* (the module-level list `subscriptions`) and the Flask handlers that     *)
(* read and mutate it.  Flask's development server (app.run, line 242)    *)
(* serves each request on its own thread, so handlers interleave at the   *)
(* points where the interpreter may switch threads; every action below is *)
(* one block of a handler that touches the shared list at most once.      *)
(***************************************************************************)
EXTENDS Integers, Sequences, FiniteSets, TLC

\* ------------------------------------------------------------------ bounds
\* Number of request threads that may be inside a handler at the same time.
NumProcs == 2
\* Largest registry the model lets concurrent register calls grow (the list itself is unbounded).
MaxSubs == 2
\* Largest registry the model lets register calls grow when requests are served one at a time.
MaxSerialSubs == 3

Procs == 1..NumProcs

\* ------------------------------------------------------------ JSON values
\* The display truncation `[:50]` of lines 90, 93, 174, 183, 184.
PrefixLen == 50

\* A string is a sequence of one-character strings; a JSON null has no characters.
Str(s) == [type |-> "str", val |-> s]
JsonNull == [type |-> "null", val |-> <<>>]

Pad(s, c, n) == s \o [i \in 1..(n - Len(s)) |-> c]

\* Two endpoints of 51 characters that differ only in their last character
\* (same 50-character prefix), a short one, and the empty string.
LongStem == Pad(<<"h", "t", "t", "p", "s", ":", "/", "/", "a", "/">>, "x", PrefixLen)
EpA == Str(LongStem \o <<"1">>)
EpB == Str(LongStem \o <<"2">>)
EpC == Str(<<"h", "t", "t", "p", ":", "/", "/", "b", ":", "8", "/", "p">>)
EpEmpty == Str(<<>>)
\* A non-empty string with neither scheme nor host.
EpRel == Str(<<"b">>)
\* A URL whose host opens a bracket that is never closed.
EpBad == Str(<<"h", "t", "t", "p", ":", "/", "/", "[", "b">>)

\* request.json of POST /subscribe: None, or a dict that has or lacks the keys
\* 'endpoint' and 'keys'.  A dict without 'endpoint' carries the canonical
\* JsonNull in that field; keys = "absent" is a dict without 'keys'.
Body(e, k) == [isNone |-> FALSE, hasEndpoint |-> TRUE, endpoint |-> e, keys |-> k]
NoBody == [isNone |-> TRUE, hasEndpoint |-> FALSE, endpoint |-> JsonNull, keys |-> "absent"]
EmptyDict == [isNone |-> FALSE, hasEndpoint |-> FALSE, endpoint |-> JsonNull, keys |-> "absent"]
KeysOnly == [isNone |-> FALSE, hasEndpoint |-> FALSE, endpoint |-> JsonNull, keys |-> "k1"]
\* The request bodies the model submits.
Bodies == {NoBody, EmptyDict, KeysOnly,
           Body(EpA, "k1"), Body(EpA, "absent"), Body(EpB, "k1"), Body(EpC, "k1"),
           Body(EpEmpty, "k1"), Body(EpRel, "k1"), Body(EpBad, "k1"), Body(JsonNull, "k1")}

\* The request bodies submitted while requests are served concurrently.
ThreadedBodies == {KeysOnly, Body(EpA, "k1"), Body(EpB, "k1")}

\* Python truthiness of request.json: None and the empty dict are falsy.
Falsy(body) == body.isNone \/ (~body.hasEndpoint /\ body.keys = "absent")

\* request.json of POST /send-notification: None, or a dict that has or lacks
\* the keys 'title' and 'body' (the dict with neither is the empty dict).
NoPayload == [isNone |-> TRUE, title |-> FALSE, body |-> FALSE]
Payloads == [isNone : {FALSE}, title : BOOLEAN, body : BOOLEAN] \cup {NoPayload}
PayloadFalsy(n) == n.isNone \/ (~n.title /\ ~n.body)

\* The dict stored in the list is the request body itself.
Entry(body) == [endpoint |-> body.endpoint, keys |-> body.keys]

\* x[:50] : defined on strings only (TypeError on None).
Sliceable(v) == v.type = "str"
Take(s, n) == SubSeq(s, 1, IF Len(s) < n THEN Len(s) ELSE n)
Prefix(v) == Take(v.val, PrefixLen)

\* ------------------------------------------------------- audience resolver
\* urllib.parse.urlparse (line 65) on a string, for the two fields line 66
\* reads.  The scheme is what precedes the first ':' when that is a letter
\* followed by letters, digits, '+', '-' or '.', lower-cased; the netloc is
\* what follows a leading '//' of the remainder, up to the first '/', '?' or
\* '#'.  A netloc with only one of '[' and ']' raises ValueError.
LowerCase == <<"a", "b", "c", "d", "e", "f", "g", "h", "i", "j", "k", "l", "m",
               "n", "o", "p", "q", "r", "s", "t", "u", "v", "w", "x", "y", "z">>
UpperCase == <<"A", "B", "C", "D", "E", "F", "G", "H", "I", "J", "K", "L", "M",
               "N", "O", "P", "Q", "R", "S", "T", "U", "V", "W", "X", "Y", "Z">>
Digits == {"0", "1", "2", "3", "4", "5", "6", "7", "8", "9"}
Elems(s) == {s[i] : i \in DOMAIN s}
Letters == Elems(LowerCase) \cup Elems(UpperCase)
SchemeChars == Letters \cup Digits \cup {"+", "-", "."}
Lower(c) == IF c \in Elems(UpperCase)
            THEN LowerCase[CHOOSE i \in DOMAIN UpperCase : UpperCase[i] = c]
            ELSE c
\* str.find, 1-based: the first position of a character of cs in s, 0 if none.
Find(s, cs) == LET hits == {i \in DOMAIN s : s[i] \in cs}
               IN IF hits = {} THEN 0 ELSE CHOOSE i \in hits : \A j \in hits : i <= j
Drop(s, n) == SubSeq(s, n + 1, Len(s))
UrlParse(url) ==
    LET i == Find(url, {":"})
        hasScheme == i > 1 /\ url[1] \in Letters /\ \A k \in 1..(i - 1) : url[k] \in SchemeChars
        scheme == IF hasScheme THEN [k \in 1..(i - 1) |-> Lower(url[k])] ELSE <<>>
        rest == IF hasScheme THEN Drop(url, i) ELSE url
        hasNetloc == Len(rest) >= 2 /\ rest[1] = "/" /\ rest[2] = "/"
        after == Drop(rest, 2)
        stop == Find(after, {"/", "?", "#"})
        netloc == IF ~hasNetloc THEN <<>>
                  ELSE IF stop = 0 THEN after ELSE SubSeq(after, 1, stop - 1)
    IN [scheme |-> scheme, netloc |-> netloc,
        raises |-> ("[" \in Elems(netloc)) # ("]" \in Elems(netloc))]

\* get_vapid_claims (lines 60-71): the 'aud' of the claims, or an exception.
\* urlparse(None) does not raise: it parses b'' and returns bytes fields, which
\* the f-string of line 66 formats as "b''://b''".
NullAudience == <<"b", "'", "'", ":", "/", "/", "b", "'", "'">>
NoClaims == [raises |-> TRUE, aud |-> <<>>]
CachedClaims(e) == [raises |-> FALSE, aud |-> <<"h", "t", "t", "p", "s", ":", "/", "/", "a">>]
GetVapidClaims(e) ==
    IF ~Sliceable(e) THEN [raises |-> FALSE, aud |-> NullAudience]
    ELSE LET u == UrlParse(e.val)
         IN IF u.raises THEN NoClaims
            ELSE [raises |-> FALSE, aud |-> u.scheme \o <<":", "/", "/">> \o u.netloc]

\* ---------------------------------------------------------- push transport
\* What one call of pywebpush.webpush can do, as seen by the caller: return,
\* raise WebPushException (with response None, or a response object that has a
\* status code and a truth value), or raise any other exception.
\* requests.Response.__bool__ is `self.ok`: a 4xx/5xx response object is falsy.
Statuses == {404, 410, 500}
Outcomes ==
    {[kind |-> "ok", resp |-> "none", status |-> 0],
     [kind |-> "exc", resp |-> "none", status |-> 0],
     [kind |-> "wpe", resp |-> "none", status |-> 0]}
    \cup [kind : {"wpe"}, resp : {"truthy", "falsy"}, status : Statuses]

\* Whether an HTTP request can be addressed to the stored endpoint value: it
\* is a string with a scheme and a network location.
Addressable(e) ==
    /\ Sliceable(e)
    /\ LET u == UrlParse(e.val) IN ~u.raises /\ u.scheme # <<>> /\ u.netloc # <<>>
\* Outcomes the transport can produce for a stored endpoint value: no HTTP
\* exchange (hence no success and no status code) is possible with an endpoint
\* that is not addressable.
AllowedOutcomes(e) == IF Addressable(e) THEN Outcomes ELSE {o \in Outcomes : o.kind # "ok" /\ o.resp = "none"}

\* The endpoint values the model stores, and for each of them the result of
\* get_vapid_claims and the outcomes the transport can produce, computed once.
EndpointValues == {body.endpoint : body \in Bodies}
VapidClaims == [e \in EndpointValues |-> GetVapidClaims(e)]
TransportOutcomes == [e \in EndpointValues |-> AllowedOutcomes(e)]

\* What the push service did, in the terms of the delivery outcome: the message
\* was accepted, the service answered 404 or 410 (the endpoint is gone), or
\* the attempt failed in any other way.
Class(o) == IF o.kind = "ok" THEN "delivered"
            ELSE IF o.kind = "wpe" /\ o.resp # "none" /\ o.status \in {404, 410} THEN "gone"
            ELSE "failed"

\* The same with the two kinds of 404/410 answer told apart by the truth
\* value of the response object the exception carries.
Fate(o) == IF Class(o) = "gone" THEN (IF o.resp = "truthy" THEN "gone_truthy" ELSE "gone_falsy")
           ELSE Class(o)

\* A faulty test that removes on every rejection that carries a response.
RemoveOnAnyStatus(o) == o.resp = "truthy"
\* `e.response and e.response.status_code in [404, 410]` (line 181).
ShouldRemove(o) == o.resp = "truthy" /\ o.status \in {404, 410}

\* ------------------------------------------------------------------ state
VARIABLES
    subscriptions,          \* the module-level list (line 20)
    pc,                     \* where each request thread stands in its handler
    handler,                \* which route the thread serves
    subscription_data,      \* subscribe: request.json (line 80)
    notification_data,      \* send-notification: the JSON body of the request (line 141)
    it,                     \* index of the list iterator (line 87) or of the loop over the copy (line 161)
    snap,                   \* subscriptions[:] (line 161)
    success_count,          \* line 157
    failure_count,          \* line 158
    failed_subscriptions,   \* line 159
    response,               \* what the handler returned to its caller
    printed,                \* subscribe: which of the two log lines (90, 93) was printed
    pre,                    \* history: the list when the handler was entered (requests served one at a time)
    requested,              \* history: the endpoints submitted by register calls (register-only runs)
    log,                    \* history: what the push service did at each attempt so far
    webpush_calls,          \* history: number of webpush() calls made by the handler
    listed,                 \* the list being built by the comprehension of lines 205-211
    sent                    \* history: per attempt, the entry, whether webpush() was called and with which aud

vars == <<subscriptions, pc, handler, subscription_data, notification_data, it, snap, success_count,
          failure_count, failed_subscriptions, response, printed, listed, pre, requested, log, webpush_calls, sent>>

bcast == <<snap, success_count, failure_count, failed_subscriptions, log, webpush_calls, sent>>
hist == <<pre, requested>>

NoResponse == [status |-> 0, error |-> "", total |-> 0, success_count |-> 0,
               failure_count |-> 0, failed_subscriptions |-> <<>>]
ErrorResponse(status, error) == [NoResponse EXCEPT !.status = status, !.error = error]

Init ==
    /\ subscriptions = <<>>
    /\ pc = [p \in Procs |-> "idle"]
    /\ handler = [p \in Procs |-> "none"]
    /\ subscription_data = [p \in Procs |-> NoBody]
    /\ notification_data = [p \in Procs |-> NoPayload]
    /\ it = [p \in Procs |-> 0]
    /\ snap = [p \in Procs |-> <<>>]
    /\ success_count = [p \in Procs |-> 0]
    /\ failure_count = [p \in Procs |-> 0]
    /\ failed_subscriptions = [p \in Procs |-> <<>>]
    /\ response = [p \in Procs |-> NoResponse]
    /\ printed = [p \in Procs |-> "nothing"]
    /\ pre = [p \in Procs |-> <<>>]
    /\ requested = {}
    /\ log = [p \in Procs |-> <<>>]
    /\ webpush_calls = [p \in Procs |-> 0]
    /\ sent = [p \in Procs |-> <<>>]
    /\ listed = [p \in Procs |-> <<>>]

\* ------------------------------------------------------- list operations
Range(s) == {s[i] : i \in DOMAIN s}
\* list.append (line 92).
ListAppend(lst, x) == Append(lst, x)
\* A faulty removal that drops the head of the list whatever x is.
RemoveHead(lst, x) == Tail(lst)
\* A faulty removal whose slice starts one element early.
RemoveFromPrevious(lst, x) ==
    LET i == CHOOSE k \in DOMAIN lst : lst[k] = x /\ \A j \in 1..(k - 1) : lst[j] # x
    IN SubSeq(lst, 1, i - 2) \o SubSeq(lst, i + 1, Len(lst))
\* list.remove (line 182): deletes the first element equal to x; the caller
\* handles the case of no such element (ValueError).
FirstIndex(lst, x) == CHOOSE i \in DOMAIN lst : lst[i] = x /\ \A j \in 1..(i - 1) : lst[j] # x
ListRemove(lst, x) == LET i == FirstIndex(lst, x)
                      IN SubSeq(lst, 1, i - 1) \o SubSeq(lst, i + 1, Len(lst))
\* A faulty emptiness test that never reports an empty list.
NeverEmpty(lst) == FALSE
\* `not subscriptions` (lines 111 and 137).
IsEmpty(lst) == lst = <<>>
\* Faulty filters: one compares the whole dicts, one accepts any element.
SameDict(s, data) == s = [endpoint |-> data.endpoint, keys |-> data.keys]
AnyEntry(s, data) == TRUE
\* The filter of the generator expression of line 87.
SameEndpoint(s, data) == s.endpoint = data.endpoint

\* Register calls in flight that may still append.
Registering == {q \in Procs : pc[q] \in {"scan", "append"}}

\* --------------------------------------------------------------- subscribe
\* Lines 80-87: read the body, validate it, create the iterator over the list.
SubscribeBegin(p, body) ==
    /\ pc[p] = "idle"
    /\ handler' = [handler EXCEPT ![p] = "subscribe"]
    /\ subscription_data' = [subscription_data EXCEPT ![p] = body]
    /\ IF Falsy(body) \/ ~body.hasEndpoint
       THEN /\ response' = [response EXCEPT ![p] = ErrorResponse(400, "InvalidSubscription")]
            /\ pc' = [pc EXCEPT ![p] = "done"]
       ELSE /\ pc' = [pc EXCEPT ![p] = "scan"]
            /\ UNCHANGED response
    /\ UNCHANGED <<subscriptions, notification_data, it, printed>>
    /\ UNCHANGED bcast
    /\ UNCHANGED listed

\* Line 87, one step of next(): the list iterator yields the element at its
\* index, if the list (as it is now) still has one, and the filter is applied.
\* A match ends the search (lines 89-90); exhaustion leaves `existing` None.
SubscribeScan(p) ==
    /\ pc[p] = "scan"
    /\ IF it[p] < Len(subscriptions)
       THEN IF SameEndpoint(subscriptions[it[p] + 1], subscription_data[p])
            THEN IF Sliceable(subscription_data[p].endpoint)
                 THEN /\ printed' = [printed EXCEPT ![p] = "exists"]
                      /\ pc' = [pc EXCEPT ![p] = "respond"]
                      /\ UNCHANGED response
                 ELSE \* line 90 raises TypeError, caught at line 101
                      /\ response' = [response EXCEPT ![p] = ErrorResponse(500, "Exception")]
                      /\ pc' = [pc EXCEPT ![p] = "done"]
                      /\ UNCHANGED printed
            ELSE /\ UNCHANGED <<pc, printed, response>>
       ELSE /\ pc' = [pc EXCEPT ![p] = "append"]
            /\ UNCHANGED <<printed, response>>
    /\ it' = [it EXCEPT ![p] = IF it[p] < Len(subscriptions) THEN it[p] + 1 ELSE it[p]]
    /\ UNCHANGED <<subscriptions, handler, subscription_data, notification_data, pre, requested>>
    /\ UNCHANGED bcast
    /\ UNCHANGED listed

\* Lines 92-93: append, then print the truncated endpoint.
SubscribeAppend(p) ==
    /\ pc[p] = "append"
    /\ subscriptions' = ListAppend(subscriptions, Entry(subscription_data[p]))
    /\ IF Sliceable(subscription_data[p].endpoint)
       THEN /\ printed' = [printed EXCEPT ![p] = "added"]
            /\ pc' = [pc EXCEPT ![p] = "respond"]
            /\ UNCHANGED response
       ELSE \* line 93 raises TypeError after the append, caught at line 101
            /\ response' = [response EXCEPT ![p] = ErrorResponse(500, "Exception")]
            /\ pc' = [pc EXCEPT ![p] = "done"]
            /\ UNCHANGED printed
    /\ UNCHANGED <<handler, subscription_data, notification_data, it, pre, requested>>
    /\ UNCHANGED bcast
    /\ UNCHANGED listed

\* Lines 95-99: the response carries len(subscriptions) as read now.
SubscribeRespond(p) ==
    /\ pc[p] = "respond"
    /\ response' = [response EXCEPT ![p] = [NoResponse EXCEPT !.status = 201,
                                                             !.total = Len(subscriptions)]]
    /\ pc' = [pc EXCEPT ![p] = "done"]
    /\ UNCHANGED <<subscriptions, handler, subscription_data, notification_data, it, printed, pre, requested>>
    /\ UNCHANGED bcast
    /\ UNCHANGED listed

\* --------------------------------------------------------------- broadcast
\* Lines 111-121: the emptiness test of POST /test-notification.
TestBegin(p) ==
    /\ pc[p] = "idle"
    /\ handler' = [handler EXCEPT ![p] = "test"]
    /\ IF IsEmpty(subscriptions)
       THEN /\ response' = [response EXCEPT ![p] = ErrorResponse(400, "NoSubscribers")]
            /\ pc' = [pc EXCEPT ![p] = "done"]
       ELSE /\ pc' = [pc EXCEPT ![p] = "snapshot"]
            /\ UNCHANGED response
    /\ UNCHANGED <<subscriptions, subscription_data, notification_data, it, printed, requested>>
    /\ UNCHANGED bcast
    /\ UNCHANGED listed

\* Lines 137-144: the emptiness test of POST /send-notification comes first,
\* the check of the payload second.
CustomBegin(p, n) ==
    /\ pc[p] = "idle"
    /\ handler' = [handler EXCEPT ![p] = "custom"]
    /\ notification_data' = [notification_data EXCEPT ![p] = n]
    /\ IF IsEmpty(subscriptions)
       THEN /\ response' = [response EXCEPT ![p] = ErrorResponse(400, "NoSubscribers")]
            /\ pc' = [pc EXCEPT ![p] = "done"]
       ELSE IF PayloadFalsy(n) \/ ~n.title \/ ~n.body
            THEN /\ response' = [response EXCEPT ![p] = ErrorResponse(400, "InvalidPayload")]
                 /\ pc' = [pc EXCEPT ![p] = "done"]
            ELSE /\ pc' = [pc EXCEPT ![p] = "snapshot"]
                 /\ UNCHANGED response
    /\ UNCHANGED <<subscriptions, subscription_data, it, printed, requested>>
    /\ UNCHANGED bcast
    /\ UNCHANGED listed

\* Lines 157-161: the counters and the copy `subscriptions[:]`.
Snapshot(p) ==
    /\ pc[p] = "snapshot"
    /\ snap' = [snap EXCEPT ![p] = subscriptions]
    /\ it' = [it EXCEPT ![p] = 0]
    /\ success_count' = [success_count EXCEPT ![p] = 0]
    /\ failure_count' = [failure_count EXCEPT ![p] = 0]
    /\ failed_subscriptions' = [failed_subscriptions EXCEPT ![p] = <<>>]
    /\ pc' = [pc EXCEPT ![p] = "loop"]
    /\ UNCHANGED <<subscriptions, handler, subscription_data, notification_data, response,
                   printed, pre, requested, log, webpush_calls, sent>>
    /\ UNCHANGED listed

\* The iterable of the loop of line 161: the copy, not the live list.
LiveList(p) == subscriptions
LoopList(p) == snap[p]

\* Lines 162-181 and 186-188: one delivery attempt for the next entry of the
\* copy; the transport's outcome o is the environment's choice.  When
\* get_vapid_claims raises, webpush is not called and line 186 counts a failure.
Attempt(p, o) ==
    /\ pc[p] = "loop"
    /\ it[p] < Len(snap[p])
    /\ LET subscription == LoopList(p)[it[p] + 1]
           vapid_claims == VapidClaims[subscription.endpoint]
       IN IF vapid_claims.raises
          THEN /\ o = [kind |-> "exc", resp |-> "none", status |-> 0]
               /\ sent' = [sent EXCEPT ![p] = Append(@, [subscription |-> subscription,
                              called |-> FALSE, aud |-> <<>>, fate |-> "failed"])]
               /\ log' = [log EXCEPT ![p] = Append(@, "failed")]
               /\ failure_count' = [failure_count EXCEPT ![p] = @ + 1]
               /\ it' = [it EXCEPT ![p] = @ + 1]
               /\ UNCHANGED <<webpush_calls, success_count, pc>>
          ELSE /\ o \in TransportOutcomes[subscription.endpoint]
               /\ webpush_calls' = [webpush_calls EXCEPT ![p] = @ + 1]
               /\ sent' = [sent EXCEPT ![p] = Append(@, [subscription |-> subscription,
                              called |-> TRUE, aud |-> vapid_claims.aud, fate |-> Fate(o)])]
               /\ log' = [log EXCEPT ![p] = Append(@, Class(o))]
               /\ IF o.kind = "ok"
                  THEN /\ success_count' = [success_count EXCEPT ![p] = @ + 1]
                       /\ UNCHANGED failure_count
                  ELSE /\ failure_count' = [failure_count EXCEPT ![p] = @ + 1]
                       /\ UNCHANGED success_count
               /\ IF o.kind = "wpe" /\ ShouldRemove(o)
                  THEN /\ pc' = [pc EXCEPT ![p] = "remove"]
                       /\ UNCHANGED it
                  ELSE /\ it' = [it EXCEPT ![p] = @ + 1]
                       /\ UNCHANGED pc
    /\ UNCHANGED <<subscriptions, handler, subscription_data, notification_data, snap,
                   failed_subscriptions, response, printed, pre, requested>>
    /\ UNCHANGED listed

\* Lines 182-184: list.remove of the entry just rejected, then its truncated
\* endpoint is recorded.  list.remove raises ValueError when no element equals
\* the entry; raised inside the except clause of line 176, the error is not
\* caught by the clause of line 186 and leaves send_notification_to_all.
\* test_notification has no handler for it (Flask answers 500);
\* send_custom_notification catches it at line 148 and answers 500.
Remove(p) ==
    /\ pc[p] = "remove"
    /\ LET subscription == snap[p][it[p] + 1]
       IN IF subscription \in Range(subscriptions)
          THEN /\ subscriptions' = ListRemove(subscriptions, subscription)
               /\ failed_subscriptions' =
                      [failed_subscriptions EXCEPT ![p] = Append(@, Prefix(subscription.endpoint))]
               /\ it' = [it EXCEPT ![p] = @ + 1]
               /\ pc' = [pc EXCEPT ![p] = "loop"]
               /\ UNCHANGED response
          ELSE /\ response' = [response EXCEPT ![p] = ErrorResponse(500, "Exception")]
               /\ pc' = [pc EXCEPT ![p] = "done"]
               /\ UNCHANGED <<subscriptions, failed_subscriptions, it>>
    /\ UNCHANGED <<handler, subscription_data, notification_data, snap, success_count,
                   failure_count, printed, pre, requested, log, webpush_calls, sent>>
    /\ UNCHANGED listed

\* Lines 190-197: the aggregated result, with len(subscriptions) as read now.
BroadcastRespond(p) ==
    /\ pc[p] = "loop"
    /\ it[p] = Len(snap[p])
    /\ response' = [response EXCEPT ![p] =
           [status |-> 200, error |-> "", total |-> Len(subscriptions),
            success_count |-> success_count[p], failure_count |-> failure_count[p],
            failed_subscriptions |-> failed_subscriptions[p]]]
    /\ pc' = [pc EXCEPT ![p] = "done"]
    /\ UNCHANGED <<subscriptions, handler, subscription_data, notification_data, it, printed, pre, requested>>
    /\ UNCHANGED bcast
    /\ UNCHANGED listed

\* ------------------------------------------- the loop as a function
\* The state the loop of lines 161-188 works on, and its body applied to one
\* entry, given the result of get_vapid_claims for it (line 164) and the
\* outcome o of the transport; `aborted` is the ValueError of line 182 leaving
\* the loop.
LoopStart(lst) == [subscriptions |-> lst, success_count |-> 0, failure_count |-> 0,
                   failed_subscriptions |-> <<>>, aborted |-> FALSE]
LoopBody(st, subscription, vapid_claims, o) ==
       IF st.aborted THEN st
       ELSE IF vapid_claims.raises
       THEN [st EXCEPT !.failure_count = @ + 1]
       ELSE IF o.kind = "ok"
       THEN [st EXCEPT !.success_count = @ + 1]
       ELSE IF ~(o.kind = "wpe" /\ ShouldRemove(o))
       THEN [st EXCEPT !.failure_count = @ + 1]
       ELSE IF subscription \in Range(st.subscriptions)
       THEN [st EXCEPT !.failure_count = @ + 1,
                       !.subscriptions = ListRemove(@, subscription),
                       !.failed_subscriptions = Append(@, Prefix(subscription.endpoint))]
       ELSE [st EXCEPT !.failure_count = @ + 1, !.aborted = TRUE]
\* The claims of every entry of a copy of the list.
ClaimsOf(copy) == [i \in DOMAIN copy |-> VapidClaims[copy[i].endpoint]]
\* The loop run over the entries of `copy` taken in the given order of
\* positions from the k-th on, entry i having claims[i] and meeting
\* outcomes[i]; the state after a pass is computed once and handed on.
RECURSIVE SendInOrder(_, _, _, _, _, _)
SendInOrder(k, order, copy, claims, outcomes, st) ==
    IF k > Len(order) THEN st
    ELSE LET i == order[k]
         IN CHOOSE r \in {SendInOrder(k + 1, order, copy, claims, outcomes, after) :
                              after \in {LoopBody(st, copy[i], claims[i], outcomes[i])}} : TRUE

\* ------------------------------------------------------- list and health
Ellipsis == <<".", ".", ".">>
\* Lines 203-204: GET /subscriptions evaluates len(subscriptions), then
\* creates the iterator of the comprehension over the list itself.
ListBegin(p) ==
    /\ pc[p] = "idle"
    /\ handler' = [handler EXCEPT ![p] = "list"]
    /\ response' = [response EXCEPT ![p] = [NoResponse EXCEPT !.total = Len(subscriptions)]]
    /\ it' = [it EXCEPT ![p] = 0]
    /\ pc' = [pc EXCEPT ![p] = "listing"]
    /\ UNCHANGED <<subscriptions, subscription_data, notification_data, printed, listed, requested>>
    /\ UNCHANGED bcast

\* Lines 205-213, one step of the comprehension: the next element of the list
\* as it is now, if any, gives one item; `[:50]` on an endpoint that is not a
\* string raises and the request ends in a 500.  Exhaustion gives the 200.
ListScan(p) ==
    /\ pc[p] = "listing"
    /\ IF it[p] < Len(subscriptions)
       THEN LET sub == subscriptions[it[p] + 1]
            IN IF Sliceable(sub.endpoint)
               THEN /\ listed' = [listed EXCEPT ![p] = Append(@,
                           [endpoint |-> Prefix(sub.endpoint) \o Ellipsis, has_keys |-> sub.keys # "absent"])]
                    /\ it' = [it EXCEPT ![p] = @ + 1]
                    /\ UNCHANGED <<pc, response>>
               ELSE /\ response' = [response EXCEPT ![p] = ErrorResponse(500, "Exception")]
                    /\ pc' = [pc EXCEPT ![p] = "done"]
                    /\ UNCHANGED <<it, listed>>
       ELSE /\ response' = [response EXCEPT ![p] = [@ EXCEPT !.status = 200]]
            /\ pc' = [pc EXCEPT ![p] = "done"]
            /\ UNCHANGED <<it, listed>>
    /\ UNCHANGED <<subscriptions, handler, subscription_data, notification_data, printed, pre, requested>>
    /\ UNCHANGED bcast

\* Lines 222-225: GET /health answers with len(subscriptions).
HealthCheck(p) ==
    /\ pc[p] = "idle"
    /\ handler' = [handler EXCEPT ![p] = "health"]
    /\ response' = [response EXCEPT ![p] = [NoResponse EXCEPT !.status = 200, !.total = Len(subscriptions)]]
    /\ pc' = [pc EXCEPT ![p] = "done"]
    /\ UNCHANGED <<subscriptions, subscription_data, notification_data, it, printed, listed, requested>>
    /\ UNCHANGED bcast

\* The response has been sent; the thread is free for the next request.
Return(p) ==
    /\ pc[p] = "done"
    /\ pc' = [pc EXCEPT ![p] = "idle"]
    /\ handler' = [handler EXCEPT ![p] = "none"]
    /\ subscription_data' = [subscription_data EXCEPT ![p] = NoBody]
    /\ notification_data' = [notification_data EXCEPT ![p] = NoPayload]
    /\ it' = [it EXCEPT ![p] = 0]
    /\ snap' = [snap EXCEPT ![p] = <<>>]
    /\ success_count' = [success_count EXCEPT ![p] = 0]
    /\ failure_count' = [failure_count EXCEPT ![p] = 0]
    /\ failed_subscriptions' = [failed_subscriptions EXCEPT ![p] = <<>>]
    /\ response' = [response EXCEPT ![p] = NoResponse]
    /\ printed' = [printed EXCEPT ![p] = "nothing"]
    /\ pre' = [pre EXCEPT ![p] = <<>>]
    /\ log' = [log EXCEPT ![p] = <<>>]
    /\ webpush_calls' = [webpush_calls EXCEPT ![p] = 0]
    /\ sent' = [sent EXCEPT ![p] = <<>>]
    /\ listed' = [listed EXCEPT ![p] = <<>>]
    /\ UNCHANGED <<subscriptions, requested>>

\* ---------------------------------------------------------- specifications
\* The requests a client may send, as the first block of their handlers.
Subscribe(p) ==
    /\ Len(subscriptions) + Cardinality(Registering) < MaxSubs
    /\ \E body \in ThreadedBodies : SubscribeBegin(p, body)
    /\ UNCHANGED hist
TestNotification(p) == TestBegin(p) /\ UNCHANGED pre
SendNotification(p) == (\E n \in Payloads : CustomBegin(p, n)) /\ UNCHANGED pre
Deliver(p) == \E o \in Outcomes : Attempt(p, o)
GetSubscriptions(p) == ListBegin(p) /\ UNCHANGED pre
Health(p) == HealthCheck(p) /\ UNCHANGED pre

\* Requests served concurrently, one thread each (Flask's development server).
Next ==
    \E p \in Procs :
        \/ Subscribe(p)
        \/ SubscribeScan(p)
        \/ SubscribeAppend(p)
        \/ SubscribeRespond(p)
        \/ TestNotification(p)
        \/ SendNotification(p)
        \/ Snapshot(p)
        \/ Deliver(p)
        \/ Remove(p)
        \/ BroadcastRespond(p)
        \/ GetSubscriptions(p)
        \/ ListScan(p)
        \/ Health(p)
        \/ Return(p)
Spec == Init /\ [][Next]_vars

\* Requests served one after the other: a handler runs from its first line to
\* its response while no other handler is active.  `pre` records the list as
\* the handler found it.
Quiet(p) == \A q \in Procs \ {p} : pc[q] = "idle"
Entered(p) == pre' = [pre EXCEPT ![p] = subscriptions]
SerialSubscribe(p) ==
    /\ Quiet(p)
    /\ Len(subscriptions) < MaxSerialSubs
    /\ \E body \in Bodies : SubscribeBegin(p, body)
    /\ Entered(p)
    /\ UNCHANGED requested
SerialTestNotification(p) == Quiet(p) /\ TestBegin(p) /\ Entered(p)
SerialSendNotification(p) == Quiet(p) /\ (\E n \in Payloads : CustomBegin(p, n)) /\ Entered(p)
SerialGetSubscriptions(p) == Quiet(p) /\ ListBegin(p) /\ Entered(p)
SerialHealth(p) == Quiet(p) /\ HealthCheck(p) /\ Entered(p)
SeqNext ==
    \E p \in Procs :
        \/ SerialSubscribe(p)
        \/ SubscribeScan(p)
        \/ SubscribeAppend(p)
        \/ SubscribeRespond(p)
        \/ SerialTestNotification(p)
        \/ SerialSendNotification(p)
        \/ Snapshot(p)
        \/ Deliver(p)
        \/ Remove(p)
        \/ BroadcastRespond(p)
        \/ SerialGetSubscriptions(p)
        \/ ListScan(p)
        \/ SerialHealth(p)
        \/ Return(p)
SeqSpec == Init /\ [][SeqNext]_vars

\* Register-only runs: register calls for pairwise distinct string endpoints,
\* served concurrently, starting from the empty list.
RegisterBodies == {Body(EpA, "k1"), Body(EpA, "absent"), Body(EpB, "k1"), Body(EpC, "k1"),
                   Body(EpEmpty, "k1")}
RegisterDistinct(p) ==
    /\ Cardinality(requested) < MaxSerialSubs
    /\ \E body \in RegisterBodies :
        /\ body.hasEndpoint
        /\ Sliceable(body.endpoint)
        /\ body.endpoint \notin requested
        /\ SubscribeBegin(p, body)
        /\ requested' = requested \cup {body.endpoint}
    /\ UNCHANGED pre
RegNext ==
    \E p \in Procs :
        \/ RegisterDistinct(p)
        \/ SubscribeScan(p)
        \/ SubscribeAppend(p)
        \/ SubscribeRespond(p)
        \/ Return(p)
RegSpec == Init /\ [][RegNext]_vars

\* ------------------------------------------------------------------ claims
Endpoints(lst) == {lst[i].endpoint : i \in DOMAIN lst}
Finished(p, h) == pc[p] = "done" /\ handler[p] \in h
Broadcasts == {"test", "custom"}
Count(seq, c) == Cardinality({i \in DOMAIN seq : seq[i] = c})

\* C1: with requests served one at a time, a register call for a string
\* endpoint that is already in the list leaves the list as it was, prints
\* "already exists" (added = false) and returns the current total; for an
\* endpoint not in the list it appends exactly the submitted dict, prints
\* "added" (added = true) and returns the total after the append.
C1_RegisterIdempotent ==
    \A p \in Procs :
        (Finished(p, {"subscribe"}) /\ subscription_data[p].hasEndpoint
            /\ Sliceable(subscription_data[p].endpoint))
        => /\ response[p].status = 201
           /\ IF subscription_data[p].endpoint \in Endpoints(pre[p])
              THEN /\ subscriptions = pre[p]
                   /\ printed[p] = "exists"
                   /\ response[p].total = Len(pre[p])
              ELSE /\ subscriptions = Append(pre[p], Entry(subscription_data[p]))
                   /\ printed[p] = "added"
                   /\ response[p].total = Len(pre[p]) + 1
\* A register call has returned for an endpoint that was already registered,
\* under other key material, in a list of two entries.
C1_Witness ==
    \E p \in Procs :
        /\ Finished(p, {"subscribe"})
        /\ printed[p] = "exists"
        /\ Len(pre[p]) = 2
        /\ Entry(subscription_data[p]) \notin Range(pre[p])

\* C2: in every reachable state, with register calls and broadcasts served
\* concurrently, no two entries of the list have the same endpoint.
C2_AtMostOnePerEndpoint ==
    \A i, j \in DOMAIN subscriptions :
        i # j => subscriptions[i].endpoint # subscriptions[j].endpoint

\* C3: when a broadcast served alone has returned, every attempt the push
\* service rejected with 404 or 410 was counted as failed, its subscription
\* is no longer in the list and its truncated endpoint is in the result's
\* failed_subscriptions.
C3_GoneIsRemoved ==
    \A p \in Procs :
        (Finished(p, Broadcasts) /\ response[p].status = 200)
        => /\ response[p].failure_count >= Count(log[p], "gone")
           /\ \A i \in DOMAIN log[p] :
                log[p][i] = "gone"
                => /\ snap[p][i] \notin Range(subscriptions)
                   /\ Prefix(snap[p][i].endpoint) \in Range(response[p].failed_subscriptions)

C6_AggregateResult ==
    \A p \in Procs :
        (Finished(p, Broadcasts) /\ response[p].status = 200)
        => LET n == Len(pre[p])
               gone == {i \in DOMAIN log[p] : log[p][i] = "gone"}
           IN /\ response[p].success_count = Count(log[p], "delivered")
              /\ response[p].failure_count = Count(log[p], "failed") + Count(log[p], "gone")
              /\ response[p].success_count + response[p].failure_count = n
              /\ Len(response[p].failed_subscriptions) = Cardinality(gone)
              /\ Range(response[p].failed_subscriptions)
                    = {Prefix(snap[p][i].endpoint) : i \in gone}
              /\ response[p].total = Len(subscriptions)
              /\ Len(subscriptions) = n - Cardinality(gone)

\* C7: a broadcast request (test or custom) that finds the list empty ends
\* at once with the error NoSubscribers, calls the push transport zero times
\* and leaves the list empty.
C7_EmptyRegistryNoSubscribers ==
    /\ [][\A p \in Procs :
            (pc[p] = "idle" /\ handler'[p] \in Broadcasts /\ subscriptions = <<>>)
            => /\ pc'[p] = "done"
               /\ response'[p] = ErrorResponse(400, "NoSubscribers")
               /\ subscriptions' = <<>>]_vars
    /\ [](\A p \in Procs :
            response[p].error = "NoSubscribers"
            => (pc[p] = "done" /\ webpush_calls[p] = 0 /\ log[p] = <<>>))
\* A custom broadcast with a well-formed payload has been refused with
\* NoSubscribers on the empty list.
C7_Witness ==
    \E p \in Procs :
        /\ Finished(p, {"custom"})
        /\ notification_data[p].title /\ notification_data[p].body
        /\ response[p].error = "NoSubscribers"
        /\ subscriptions = <<>>

\* C8: a custom-notification request whose payload lacks title or body is
\* refused with InvalidPayload, whatever the list holds, with zero delivery
\* attempts and the list left as it was.
C8_InvalidPayloadRejected ==
    \A p \in Procs :
        (/\ Finished(p, {"custom"})
         /\ (notification_data[p].isNone \/ ~notification_data[p].title
                \/ ~notification_data[p].body))
        => /\ response[p].error = "InvalidPayload"
           /\ webpush_calls[p] = 0
           /\ subscriptions = pre[p]

\* C9: a register call whose body has no endpoint, or the empty string as
\* endpoint, is refused with InvalidSubscription and adds nothing to the list.
C9_EmptyEndpointRejected ==
    \A p \in Procs :
        (/\ Finished(p, {"subscribe"})
         /\ (~subscription_data[p].hasEndpoint \/ subscription_data[p].endpoint = EpEmpty))
        => /\ response[p].error = "InvalidSubscription"
           /\ subscriptions = pre[p]

\* C10: register calls for pairwise distinct endpoints, served concurrently
\* from the empty list: no endpoint is ever held twice, and once all calls
\* have returned the list holds exactly one entry per submitted endpoint.
C10_DistinctRegistrations ==
    /\ Endpoints(subscriptions) \subseteq requested
    /\ \A i, j \in DOMAIN subscriptions :
          i # j => subscriptions[i].endpoint # subscriptions[j].endpoint
    /\ (\A p \in Procs : pc[p] = "idle")
          => /\ Len(subscriptions) = Cardinality(requested)
             /\ Endpoints(subscriptions) = requested
\* Two register calls overlapped: both appended, and both read the total
\* after the other's append.
C10_Witness ==
    \E p, q \in Procs :
        /\ p # q
        /\ Finished(p, {"subscribe"}) /\ Finished(q, {"subscribe"})
        /\ printed[p] = "added" /\ printed[q] = "added"
        /\ response[p].total = 2 /\ response[q].total = 2
        /\ Cardinality(requested) = 2


\* The origin (scheme, host and port) of each well-formed endpoint of the
\* model, written out by hand.
OriginA == <<"h", "t", "t", "p", "s", ":", "/", "/", "a">>
OriginC == <<"h", "t", "t", "p", ":", "/", "/", "b", ":", "8">>
WellFormed == {EpA, EpB, EpC}
Origin(e) == IF e = EpC THEN OriginC ELSE OriginA

C12_OtherOutcomesKeepRegistry ==
    [][\A p \in Procs :
          (/\ Len(log'[p]) = Len(log[p]) + 1
           /\ log'[p][Len(log'[p])] # "gone")
          => /\ subscriptions' = subscriptions
             /\ failed_subscriptions'[p] = failed_subscriptions[p]
             /\ pc'[p] = "loop"
             /\ IF log'[p][Len(log'[p])] = "delivered"
                THEN /\ success_count'[p] = success_count[p] + 1
                     /\ failure_count'[p] = failure_count[p]
                ELSE /\ success_count'[p] = success_count[p]
                     /\ failure_count'[p] = failure_count[p] + 1]_vars
\* A broadcast has just had an attempt fail on a called transport, and the
\* entry is still registered.
C12_Witness ==
    \E p \in Procs :
        /\ pc[p] = "loop"
        /\ it[p] = 1
        /\ log[p] = <<"failed">>
        /\ sent[p][1].called
        /\ sent[p][1].subscription \in Range(subscriptions)
        /\ failed_subscriptions[p] = <<>>

\* C13: with register calls, broadcasts, listings and health checks served
\* concurrently, every step leaves the registry as it is, or appends one entry
\* to it (a register call at line 92), or takes out one occurrence of the very
\* entry a broadcast has just had rejected with 404/410 (line 182), the other
\* entries staying as they are and in order.
C13_OnlyRejectionRemoves ==
    [][\/ subscriptions' = subscriptions
       \/ /\ \E p \in Procs : pc[p] = "append" /\ handler[p] = "subscribe"
          /\ Len(subscriptions') = Len(subscriptions) + 1
          /\ SubSeq(subscriptions', 1, Len(subscriptions)) = subscriptions
       \/ \E p \in Procs :
             /\ handler[p] \in Broadcasts
             /\ pc[p] = "remove"
             /\ Len(log[p]) = it[p] + 1
             /\ log[p][it[p] + 1] = "gone"
             /\ sent[p][it[p] + 1].subscription = snap[p][it[p] + 1]
             /\ \E k \in DOMAIN subscriptions :
                   /\ subscriptions[k] = snap[p][it[p] + 1]
                   /\ subscriptions' = SubSeq(subscriptions, 1, k - 1)
                                       \o SubSeq(subscriptions, k + 1, Len(subscriptions))]_vars
\* A broadcast has just removed the second entry of its snapshot after a
\* rejection, the first entry is still registered, and a listing is under way
\* on the other thread.
C13_Witness ==
    \E p, q \in Procs :
        /\ pc[q] = "listing"
        /\ pc[p] = "loop"
        /\ it[p] = 2
        /\ log[p][2] = "gone"
        /\ Len(failed_subscriptions[p]) = 1
        /\ subscriptions = <<snap[p][1]>>

\* The string endpoints of the model that are not absolute URLs: scheme and
\* host missing, or a host that cannot be parsed.
Malformed == {EpEmpty, EpRel, EpBad}

\* C14: when the endpoint of a snapshot entry is not a parseable absolute URL,
\* the attempt is skipped without a call of the push transport and counted as
\* failed, and a broadcast that returns its result has gone through the
\* whole snapshot.
C14_MalformedEndpointSkipped ==
    \A p \in Procs :
        /\ \A i \in DOMAIN sent[p] :
               sent[p][i].subscription.endpoint \in Malformed
               => ~sent[p][i].called /\ log[p][i] = "failed"
        /\ (Finished(p, Broadcasts) /\ response[p].status = 200) => Len(sent[p]) = Len(snap[p])

\* The entries a broadcast has made an attempt for, in the order of the attempts.
Attempted(p) == [i \in DOMAIN sent[p] |-> sent[p][i].subscription]

Orders(n) == Permutations(1..n)
Fates(p) == [i \in DOMAIN sent[p] |-> sent[p][i].fate]
\* An outcome of the transport for each fate recorded.
OutcomeOf(f) == CHOOSE o \in Outcomes : Fate(o) = f

\* C16: with requests served one at a time, the result a broadcast returns
\* (delivered and failed counts, set of removed endpoints) and the registry it
\* leaves are what the loop yields for the same registry and the same fate of
\* each entry when the snapshot's entries are processed in any order.
C16_OrderIndependent ==
    \A p \in Procs :
        (Finished(p, Broadcasts) /\ response[p].status = 200)
        => \A claims \in {ClaimsOf(snap[p])} :
           \A outcomes \in {[i \in DOMAIN sent[p] |-> OutcomeOf(sent[p][i].fate)]} :
           \A order \in Orders(Len(snap[p])) :
           \A r \in {SendInOrder(1, order, snap[p], claims, outcomes, LoopStart(pre[p]))} :
               /\ ~r.aborted
               /\ r.success_count = response[p].success_count
               /\ r.failure_count = response[p].failure_count
               /\ Range(r.failed_subscriptions) = Range(response[p].failed_subscriptions)
               /\ r.subscriptions = subscriptions
\* A broadcast over three entries has returned with one delivered, one
\* removed after a rejection and one failed.
C16_Witness ==
    \E p \in Procs :
        /\ Finished(p, Broadcasts)
        /\ response[p].status = 200
        /\ Len(snap[p]) = 3
        /\ {"delivered", "gone_truthy", "failed"} \subseteq Range(Fates(p))
        /\ Len(subscriptions) = 2

\* C17: with requests served one at a time, a register call that returns an
\* error (400 or 500) leaves the registry exactly as it found it.
C17_FailedRegisterKeepsRegistry ==
    \A p \in Procs :
        (Finished(p, {"subscribe"}) /\ response[p].status \in {400, 500})
        => subscriptions = pre[p]

====
